---- MODULE Spec2Model ----
(***************************************************************************)
(* Multi_Blink5_Neo: the table-driven finite state machine (MultiBlink),   *)
(* the colour interpolator (cNeoFade), the reset (InitTables) and the      *)
(* control loop (loop).                                                    *)
(*                                                                         *)
(* A uint32_t is a pair <<hi, lo>> of 16-bit halves, so that arithmetic    *)
(* modulo 2^32 is computed exactly.                                        *)
(***************************************************************************)
EXTENDS Integers, Sequences, FiniteSets, TLC

VARIABLES
  T,            \* the three sequence tables T1, T2, T3 (never written)
  S,            \* the three scratchpad arrays S1, S2, S3
  leds,         \* CRGB leds[NUM_LEDS], slot i at index i + 1
  needsUpdate,  \* the dirty flag
  nTable,       \* loop()'s static nTable
  bLastHigh,    \* switchState()'s static bLastHigh
  clock,        \* millis()
  age,          \* milliseconds gone by since the initial state
  phase,        \* the statement of loop() that runs next
  fault,        \* the processor trapped (integer division by zero)
  ev,           \* observer: what the last pass did for each channel
  cnt,          \* observer: per-channel counts since the last entry/reset
  lastInit,     \* observer: millis() as read by the last InitTables
  late          \* observer: a millisecond went by since the last pass

vars == <<T, S, leds, needsUpdate, nTable, bLastHigh, clock, age, phase,
          fault, ev, cnt, lastInit, late>>

----------------------------------------------------------------------------
(* Bounds of the model *)

MaxTime == 6

(* Program constants *)

MAX_STATE == 5
NUM_LEDS == 2
NumTables == 3

MB_NULL == 0
MB_SET  == 1
MB_FADE == 2
MB_LOOP == 3
MB_GOTO == 4
MB_STOP == 5

----------------------------------------------------------------------------
(* Fixed-width integers *)

Half == 65536

U32(n) == <<n \div Half, n % Half>>

Add32(a, b) ==
  LET lo == a[2] + b[2]
      hi == a[1] + b[1] + (lo \div Half)
  IN  <<hi % Half, lo % Half>>

Sub32(a, b) ==
  LET lo == a[2] - b[2]
      br == IF lo < 0 THEN 1 ELSE 0
      hi == a[1] - b[1] - br
  IN  <<(hi + Half) % Half, (lo + Half) % Half>>

Lt32(a, b) == a[1] < b[1] \/ (a[1] = b[1] /\ a[2] < b[2])

Ge32(a, b) == ~Lt32(a, b)

\* uint32_t -> int16_t: the low 16 bits, read as two's complement
ToInt16(u) == IF u[2] >= 32768 THEN u[2] - Half ELSE u[2]

\* uint32_t -> uint16_t
ToUint16(u) == u[2]

\* int -> uint8_t
ToUint8(i) == ((i % 256) + 256) % 256

\* C++ remainder: truncation towards zero, the sign of the dividend
CRem(a, b) == IF a >= 0 THEN a % b ELSE -((-a) % b)

----------------------------------------------------------------------------
(* Colours *)

RGB(r, g, b) == [r |-> r, g |-> g, b |-> b]

\* the CRGB constructor from a packed 0xRRGGBB code
CRGB(u) == RGB(u[1] % 256, u[2] \div 256, u[2] % 256)

Pack(r, g, b) == <<r, g * 256 + b>>

Black == Pack(0, 0, 0)
Blue  == Pack(0, 0, 255)
Red   == Pack(255, 0, 0)
White == Pack(255, 255, 255)

----------------------------------------------------------------------------
(* cNeoFade *)

uiabs(a, b) == IF a > b THEN a - b ELSE b - a

max3(x, y, z) ==
  IF x > y THEN (IF x > z THEN x ELSE z)
  ELSE (IF y > z THEN y ELSE z)

\* What a division by zero in setFade can give: a trap, or a quotient the
\* divide routine happens to leave
Trap == 0 - 1
DivZeroOutcomes == {Trap, 0, 65535}

\* a faulty setFade, with the directions the wrong way round
setFade_Reversed(period, rgb0, rgb1, dz) ==
  [ r0 |-> rgb0.r, g0 |-> rgb0.g, b0 |-> rgb0.b,
    r1 |-> max3(uiabs(rgb1.r, rgb0.r), uiabs(rgb1.g, rgb0.g),
                uiabs(rgb1.b, rgb0.b)) \div 2,
    g1 |-> 0, b1 |-> 0,
    steps |-> max3(uiabs(rgb1.r, rgb0.r), uiabs(rgb1.g, rgb0.g),
                   uiabs(rgb1.b, rgb0.b)),
    dR |-> uiabs(rgb1.r, rgb0.r), dG |-> uiabs(rgb1.g, rgb0.g),
    dB |-> uiabs(rgb1.b, rgb0.b),
    dMax |-> max3(uiabs(rgb1.r, rgb0.r), uiabs(rgb1.g, rgb0.g),
                  uiabs(rgb1.b, rgb0.b)),
    sR |-> IF rgb0.r < rgb1.r THEN -1 ELSE 1,
    sG |-> IF rgb0.g < rgb1.g THEN -1 ELSE 1,
    sB |-> IF rgb0.b < rgb1.b THEN -1 ELSE 1,
    timeInterval |-> U32(1), timeStart |-> U32(0), ended |-> FALSE ]

\* setFade(period, rgb0, rgb1); period is a uint16_t parameter. dz is the
\* outcome of period / _steps when _steps is 0.
setFade(period, rgb0, rgb1, dz) ==
  LET dR == uiabs(rgb1.r, rgb0.r)
      dG == uiabs(rgb1.g, rgb0.g)
      dB == uiabs(rgb1.b, rgb0.b)
      dMax == max3(dR, dG, dB)
      q == IF dMax = 0 THEN dz ELSE period \div dMax
  IN  [ r0 |-> rgb0.r, g0 |-> rgb0.g, b0 |-> rgb0.b,
        r1 |-> dMax \div 2, g1 |-> dMax \div 2, b1 |-> dMax \div 2,
        steps |-> dMax,
        dR |-> dR, dG |-> dG, dB |-> dB, dMax |-> dMax,
        sR |-> IF rgb0.r < rgb1.r THEN 1 ELSE -1,
        sG |-> IF rgb0.g < rgb1.g THEN 1 ELSE -1,
        sB |-> IF rgb0.b < rgb1.b THEN 1 ELSE -1,
        timeInterval |-> IF q = 0 THEN U32(1) ELSE U32(q),
        timeStart |-> U32(0),
        ended |-> FALSE ]

setFadeTraps(rgb0, rgb1, dz) ==
  /\ max3(uiabs(rgb1.r, rgb0.r), uiabs(rgb1.g, rgb0.g), uiabs(rgb1.b, rgb0.b)) = 0
  /\ dz = Trap

\* a faulty getNext, which never finds _steps at 0
getNext_NeverEnds(f, nowTime, ms) ==
  IF ~f.ended /\ Lt32(Sub32(nowTime, f.timeStart), f.timeInterval)
  THEN [nf |-> f, valid |-> FALSE, rgb |-> RGB(f.r0, f.g0, f.b0)]
  ELSE [nf |-> [f EXCEPT !.timeStart = ms,
                         !.r0 = IF f.r1 - f.dR < 0 THEN f.r0 + f.sR ELSE f.r0,
                         !.r1 = IF f.r1 - f.dR < 0 THEN f.r1 - f.dR + f.dMax
                                ELSE f.r1 - f.dR],
        valid |-> TRUE,
        rgb |-> RGB(f.r0, f.g0, f.b0)]

\* a faulty getNext, which ends one step early
getNext_EndsEarly(f, nowTime, ms) ==
  IF ~f.ended /\ Lt32(Sub32(nowTime, f.timeStart), f.timeInterval)
  THEN [nf |-> f, valid |-> FALSE, rgb |-> RGB(f.r0, f.g0, f.b0)]
  ELSE IF f.steps <= 1
  THEN [nf |-> [f EXCEPT !.timeStart = ms, !.ended = TRUE],
        valid |-> FALSE, rgb |-> RGB(f.r0, f.g0, f.b0)]
  ELSE [nf |-> [f EXCEPT !.timeStart = ms, !.steps = f.steps - 1],
        valid |-> TRUE, rgb |-> RGB(f.r0, f.g0, f.b0)]

\* a faulty getNext, which does not wait for the interval
getNext_NoWait(f, nowTime, ms) ==
  IF f.steps = 0
  THEN [nf |-> [f EXCEPT !.timeStart = ms, !.ended = TRUE],
        valid |-> FALSE, rgb |-> RGB(f.r0, f.g0, f.b0)]
  ELSE [nf |-> [f EXCEPT !.timeStart = ms, !.steps = f.steps - 1],
        valid |-> TRUE, rgb |-> RGB(f.r0, f.g0, f.b0)]

\* getNext(nowTime, &rgb): the object afterwards, the value returned and
\* the colour stored through rgb. ms is what millis() returns inside.
getNext(f, nowTime, ms) ==
  IF ~f.ended /\ Lt32(Sub32(nowTime, f.timeStart), f.timeInterval)
  THEN [nf |-> f, valid |-> FALSE, rgb |-> RGB(f.r0, f.g0, f.b0)]
  ELSE
    LET end == (f.steps = 0)
        er == f.r1 - f.dR
        eg == f.g1 - f.dG
        eb == f.b1 - f.dB
        stepped ==
          [f EXCEPT !.timeStart = ms, !.ended = FALSE,
                    !.steps = f.steps - 1,
                    !.r1 = IF er < 0 THEN er + f.dMax ELSE er,
                    !.r0 = IF er < 0 THEN f.r0 + f.sR ELSE f.r0,
                    !.g1 = IF eg < 0 THEN eg + f.dMax ELSE eg,
                    !.g0 = IF eg < 0 THEN f.g0 + f.sG ELSE f.g0,
                    !.b1 = IF eb < 0 THEN eb + f.dMax ELSE eb,
                    !.b0 = IF eb < 0 THEN f.b0 + f.sB ELSE f.b0]
    IN  [nf |-> IF end THEN [f EXCEPT !.timeStart = ms, !.ended = TRUE]
                ELSE stepped,
         valid |-> ~end,
         rgb |-> RGB(f.r0, f.g0, f.b0)]

----------------------------------------------------------------------------
(* The data: stateDef_t, sequence_t, scratchpad_t and the macros *)

Instr(id, t, d1, d2) ==
  [stateID |-> id, activeTime |-> t, data1 |-> d1, data2 |-> d2]

SET(t, c)        == Instr(MB_SET, U32(t), c, U32(0))
DO(t, j, n)      == Instr(MB_LOOP, U32(t), j, n)
FADE(t, c1, c2)  == Instr(MB_FADE, U32(t), c1, c2)
GOTO(t, j)       == Instr(MB_GOTO, U32(t), j, U32(0))
STOP             == Instr(MB_STOP, U32(0), U32(0), U32(0))
NOP              == Instr(MB_NULL, U32(0), U32(0), U32(0))

Entry(id, prog) == [ledId |-> id, state |-> prog]

\* nf is <<>> for nullptr and <<object>> for an owned cNeoFade
Scratch(en, cs, lw, ctr, f) ==
  [enabled |-> en, currentState |-> cs, lastWakeup |-> lw, counter |-> ctr,
   nf |-> f]

----------------------------------------------------------------------------
(* MultiBlink *)

\* T.state[cs]: an index past the array reads whatever lies there (gb)
Fetch(ent, cs, gb) == IF cs < MAX_STATE THEN ent.state[cs + 1] ELSE gb

\* a colour written to leds[T.ledId], with needsUpdate = true
Wr(kind, c) == <<[kind |-> kind, rgb |-> c]>>

\* What a case of the switch leaves: the scratchpad, the led's slot, the
\* write made (if any), whether needsUpdate was set, setNextState,
\* nextState (the jump), whether the processor trapped, and whether a
\* cNeoFade was made by new (made) or destroyed by delete (freed).
Quiet(s, led) ==
  [s |-> s, led |-> led, wrote |-> <<>>, dirty |-> FALSE, setNext |-> FALSE,
   jump |-> 0 - 1, trap |-> FALSE, made |-> FALSE, freed |-> FALSE]

\* a faulty write, which leaves needsUpdate alone
Write_Silent(s, kind, c) == [Quiet(s, c) EXCEPT !.wrote = Wr(kind, c)]

Write(s, kind, c) ==
  [Quiet(s, c) EXCEPT !.wrote = Wr(kind, c), !.dirty = TRUE]

\* a faulty case MB_SET, which writes without comparing
ExecSet_Always(I, s, led, expired) ==
  [Write(s, "set", CRGB(I.data1)) EXCEPT !.setNext = expired]

\* case MB_SET
ExecSet(I, s, led, expired) ==
  IF led # CRGB(I.data1)
  THEN [Write(s, "set", CRGB(I.data1)) EXCEPT !.setNext = expired]
  ELSE [Quiet(s, led) EXCEPT !.setNext = expired]

\* a faulty end of fade, which leaves the colour to the interpolator
FadeEnd_NoFinal(I, s) ==
  [Quiet([s EXCEPT !.nf = <<>>],
         IF s.nf = <<>> THEN CRGB(I.data1)
         ELSE RGB(s.nf[1].r0, s.nf[1].g0, s.nf[1].b0))
     EXCEPT !.setNext = TRUE]

\* a faulty end of fade, which keeps the interpolator
FadeEnd_Leaks(I, s) ==
  [Write(s, "final", CRGB(I.data2)) EXCEPT !.setNext = TRUE]

\* a faulty end of fade, which drops the pointer without delete
FadeEnd_Forgets(I, s) ==
  [Write([s EXCEPT !.nf = <<>>], "final", CRGB(I.data2)) EXCEPT
     !.setNext = TRUE]

\* case MB_FADE, "this is the last step in the fade sequence"
FadeEnd(I, s) ==
  [Write([s EXCEPT !.nf = <<>>], "final", CRGB(I.data2)) EXCEPT
     !.setNext = TRUE, !.freed = (s.nf # <<>>)]

\* a faulty first visit, which goes on to the next instruction when the
\* allocation fails
FadeBegin_GivesUp(I, s, led, allocOK, dz) ==
  IF ~allocOK
  THEN [Write(s, "start", CRGB(I.data1)) EXCEPT !.setNext = TRUE]
  ELSE Write([s EXCEPT !.nf = <<setFade(ToUint16(I.activeTime),
                                        CRGB(I.data1), CRGB(I.data2), dz)>>],
             "start", CRGB(I.data1))

\* case MB_FADE, "first time - set up the fade object and main timer"
FadeBegin(I, s, led, allocOK, dz) ==
  IF ~allocOK
  THEN Write(s, "start", CRGB(I.data1))
  ELSE IF setFadeTraps(CRGB(I.data1), CRGB(I.data2), dz)
  THEN [Quiet(s, led) EXCEPT !.trap = TRUE]
  ELSE [Write([s EXCEPT !.nf = <<setFade(ToUint16(I.activeTime),
                                         CRGB(I.data1), CRGB(I.data2), dz)>>],
              "start", CRGB(I.data1)) EXCEPT !.made = TRUE]

\* case MB_FADE, "ask for next coordinates and show if they have changed"
FadeStep(s, led, g) ==
  IF g.valid
  THEN Write([s EXCEPT !.nf = <<g.nf>>], "step", g.rgb)
  ELSE Quiet([s EXCEPT !.nf = <<g.nf>>], led)

\* a faulty case MB_FADE, which goes on as soon as the interpolator ends
ExecFade_EndsWithLine(I, s, led, expired, now, allocOK, dz) ==
  IF expired THEN FadeEnd(I, s)
  ELSE IF s.nf = <<>> THEN FadeBegin(I, s, led, allocOK, dz)
  ELSE IF ~s.nf[1].ended THEN FadeStep(s, led, getNext(s.nf[1], now, now))
  ELSE FadeEnd(I, s)

ExecFade(I, s, led, expired, now, allocOK, dz) ==
  IF expired THEN FadeEnd(I, s)
  ELSE IF s.nf = <<>> THEN FadeBegin(I, s, led, allocOK, dz)
  ELSE IF ~s.nf[1].ended THEN FadeStep(s, led, getNext(s.nf[1], now, now))
  ELSE Quiet(s, led)

\* pS->counter++ on a uint16_t
Incr16(n) == (n + 1) % Half

\* a faulty case MB_LOOP, which compares with >=
LoopTest_OneMore(I, s, led, c) ==
  IF ~Lt32(I.data2, U32(c))
  THEN [Quiet([s EXCEPT !.counter = c], led) EXCEPT !.jump = ToInt16(I.data1)]
  ELSE [Quiet([s EXCEPT !.counter = 0], led) EXCEPT !.setNext = TRUE]

\* case MB_LOOP, once timeExpired; c is the counter after pS->counter++
LoopTest(I, s, led, c) ==
  IF Lt32(U32(c), I.data2)
  THEN [Quiet([s EXCEPT !.counter = c], led) EXCEPT !.jump = ToInt16(I.data1)]
  ELSE [Quiet([s EXCEPT !.counter = 0], led) EXCEPT !.setNext = TRUE]

ExecLoop(I, s, led, expired) ==
  IF expired THEN LoopTest(I, s, led, Incr16(s.counter)) ELSE Quiet(s, led)

\* case MB_GOTO
ExecGoto(I, s, led, expired) ==
  IF expired
  THEN [Quiet(s, led) EXCEPT !.jump = ToInt16(I.data1)]
  ELSE Quiet(s, led)

\* case MB_STOP
ExecStop(s, led) == Quiet([s EXCEPT !.enabled = FALSE], led)

\* case MB_NULL and default
ExecNull(s, led) == [Quiet(s, led) EXCEPT !.setNext = TRUE]

\* the switch on T.state[cs].stateID
Exec(I, s, led, expired, now, allocOK, dz) ==
  CASE I.stateID = MB_SET  -> ExecSet(I, s, led, expired)
    [] I.stateID = MB_FADE -> ExecFade(I, s, led, expired, now, allocOK, dz)
    [] I.stateID = MB_LOOP -> ExecLoop(I, s, led, expired)
    [] I.stateID = MB_GOTO -> ExecGoto(I, s, led, expired)
    [] I.stateID = MB_STOP -> ExecStop(s, led)
    [] OTHER               -> ExecNull(s, led)

\* pS->currentState = nextState % MAX_STATE
KeepInBounds(nextState) == ToUint8(CRem(nextState, MAX_STATE))

\* int16_t nextState after "if (setNextState) nextState = currentState + 1"
NextState(cs, setNext, jump) == IF setNext THEN cs + 1 ELSE jump

\* a faulty transition, which adds one millisecond whatever the instruction
\* left was to last
Transition_OneMs(I, s, nextState) ==
  IF nextState # 0 - 1
  THEN [s EXCEPT !.lastWakeup = Add32(s.lastWakeup, U32(1)),
                 !.currentState = KeepInBounds(nextState)]
  ELSE s

\* "if (nextState != -1)": the scratchpad after the transition
Transition(I, s, nextState) ==
  IF nextState # 0 - 1
  THEN [s EXCEPT !.lastWakeup = Add32(s.lastWakeup, I.activeTime),
                 !.currentState = KeepInBounds(nextState)]
  ELSE s

\* a faulty test, which compares the clock with the deadline
Expired_Deadline(now, s, I) == Ge32(now, Add32(s.lastWakeup, I.activeTime))

\* timeExpired
Expired(now, s, I) == Ge32(Sub32(now, s.lastWakeup), I.activeTime)

----------------------------------------------------------------------------
(* Observers. ev is what the last pass did at a channel: the instruction   *)
(* run, the state index it was read at, timeExpired, the write made, the   *)
(* transition taken (seq: to the next in sequence), whether the previous   *)
(* pass was at the same instruction without leaving it (again), whether    *)
(* an allocation failed, the ordinal of this expiry of a LOOP (loopK) and  *)
(* the colour written before at this instruction (prev). cnt counts, since *)
(* the channel came to its instruction: the colours getNext gave (steps),  *)
(* the changes of the colour written (vals), the expiries of a LOOP not    *)
(* yet fallen through (loopExp), and keeps the last colour written (last). *)
(* cnt.done is the sum, since the reset, of the activeTime of every         *)
(* instruction the channel has left, and cnt.live the number of cNeoFade   *)
(* objects the channel has made by new and not destroyed by delete.        *)
(* cnt.at is the time (now) of the pass in which the FADE the channel is   *)
(* at last wrote its start colour or a colour from getNext.                *)

NoEvent ==
  [proc |-> FALSE, I |-> NOP, from |-> 0, expired |-> FALSE, wrote |-> <<>>,
   dirty |-> FALSE, trans |-> FALSE, seq |-> FALSE, jump |-> 0 - 1,
   again |-> FALSE, allocFail |-> FALSE, loopK |-> 0, prev |-> <<>>,
   made |-> FALSE, freed |-> FALSE]

NoCount ==
  [steps |-> 0, vals |-> 0, loopExp |-> 0, last |-> <<>>, done |-> U32(0),
   live |-> 0, at |-> <<>>]

IsKind(w, kind) == w # <<>> /\ w[1].kind = kind

ObserveEv(I, s, o, expired, r, allocOK) ==
  [proc |-> TRUE, I |-> I, from |-> s.currentState, expired |-> expired,
   wrote |-> r.wrote, dirty |-> r.dirty,
   trans |-> NextState(s.currentState, r.setNext, r.jump) # 0 - 1,
   seq |-> r.setNext, jump |-> r.jump,
   again |-> o.ev.proc /\ ~o.ev.trans,
   allocFail |-> IsKind(r.wrote, "start") /\ ~allocOK,
   loopK |-> IF I.stateID = MB_LOOP /\ expired THEN o.cnt.loopExp + 1 ELSE 0,
   prev |-> o.cnt.last,
   made |-> r.made, freed |-> r.freed]

\* the cNeoFade objects of the channel on the heap
LiveAfter(o, r) ==
  o.cnt.live + (IF r.made THEN 1 ELSE 0) - (IF r.freed THEN 1 ELSE 0)

LoopExpAfter(I, o, expired, r) ==
  IF I.stateID = MB_LOOP /\ expired
  THEN (IF r.setNext THEN 0 ELSE o.cnt.loopExp + 1)
  ELSE o.cnt.loopExp

ObserveCnt(I, s, o, expired, r) ==
  IF NextState(s.currentState, r.setNext, r.jump) # 0 - 1
  THEN [NoCount EXCEPT !.loopExp = LoopExpAfter(I, o, expired, r),
                       !.done = Add32(o.cnt.done, I.activeTime),
                       !.live = LiveAfter(o, r)]
  ELSE [steps |-> IF IsKind(r.wrote, "step") THEN o.cnt.steps + 1
                  ELSE IF IsKind(r.wrote, "start") THEN 0
                  ELSE o.cnt.steps,
        vals |-> IF r.wrote # <<>> /\ o.cnt.last # <<r.wrote[1].rgb>>
                 THEN o.cnt.vals + 1 ELSE o.cnt.vals,
        loopExp |-> LoopExpAfter(I, o, expired, r),
        last |-> IF r.wrote # <<>> THEN <<r.wrote[1].rgb>> ELSE o.cnt.last,
        done |-> o.cnt.done,
        live |-> LiveAfter(o, r),
        at |-> o.cnt.at]

----------------------------------------------------------------------------
(* MultiBlink, one table entry and the whole pass *)

Skipped(s, led, o, trap) ==
  [s |-> s, led |-> led, dirty |-> FALSE, trap |-> trap, ev |-> NoEvent,
   cnt |-> o.cnt]

\* after the switch: "set next state if required"
AfterExec(I, s, led, o, expired, r, allocOK) ==
  IF r.trap
  THEN Skipped(s, led, o, TRUE)
  ELSE [s |-> Transition(I, r.s, NextState(s.currentState, r.setNext, r.jump)),
        led |-> r.led, dirty |-> r.dirty, trap |-> FALSE,
        ev |-> ObserveEv(I, s, o, expired, r, allocOK),
        cnt |-> ObserveCnt(I, s, o, expired, r)]

\* the time of the pass, kept when it wrote a FADE's start or step colour
Stamp(x, now) ==
  IF IsKind(x.ev.wrote, "start") \/ IsKind(x.ev.wrote, "step")
  THEN [x EXCEPT !.cnt.at = <<now>>]
  ELSE x

RunEntry(I, s, led, o, expired, now, allocOK, dz) ==
  Stamp(AfterExec(I, s, led, o, expired,
                  Exec(I, s, led, expired, now, allocOK, dz), allocOK),
        now)

Dispatch(I, s, led, o, now, allocOK, dz) ==
  RunEntry(I, s, led, o, Expired(now, s, I), now, allocOK, dz)

\* a faulty loop body, without the test of pS->enabled
ChanStep_IgnoresEnabled(ent, s, led, o, now, allocOK, dz, gb) ==
  Dispatch(Fetch(ent, s.currentState, gb), s, led, o, now, allocOK, dz)

\* The body of MultiBlink's for loop for one table entry: "if (pS->enabled)"
ChanStep(ent, s, led, o, now, allocOK, dz, gb) ==
  IF ~s.enabled
  THEN Skipped(s, led, o, FALSE)
  ELSE Dispatch(Fetch(ent, s.currentState, gb), s, led, o, now, allocOK, dz)

\* a faulty merge, which lets the last entry decide needsUpdate
Merge_LastFlag(st, i, slot, r) ==
  [S |-> [st.S EXCEPT ![i] = r.s],
   leds |-> [st.leds EXCEPT ![slot] = r.led],
   dirty |-> r.dirty,
   trap |-> r.trap,
   ev |-> [st.ev EXCEPT ![i] = r.ev],
   cnt |-> [st.cnt EXCEPT ![i] = r.cnt]]

\* the pass's state, st, after entry i's turn gave r
Merge(st, i, slot, r) ==
  [S |-> [st.S EXCEPT ![i] = r.s],
   leds |-> [st.leds EXCEPT ![slot] = r.led],
   dirty |-> st.dirty \/ r.dirty,
   trap |-> r.trap,
   ev |-> [st.ev EXCEPT ![i] = r.ev],
   cnt |-> [st.cnt EXCEPT ![i] = r.cnt]]

\* MultiBlink(pT, pS, tableSize) from entry i on. st holds the scratchpads,
\* the colour buffer, the dirty flag and the observers; in holds what the
\* pass draws from outside: allocation results, the division outcome, and
\* what an out-of-range state index reads.
RECURSIVE MultiBlinkFrom(_, _, _, _, _)
MultiBlinkFrom(pT, st, i, now, in) ==
  IF i > Len(pT) \/ st.trap
  THEN st
  ELSE MultiBlinkFrom(pT,
         Merge(st, i, pT[i].ledId + 1,
               ChanStep(pT[i], st.S[i], st.leds[pT[i].ledId + 1],
                        [ev |-> st.ev[i], cnt |-> st.cnt[i]],
                        now, in.alloc[i], in.dz, in.gb[i])),
         i + 1, now, in)

MultiBlink(pT, pS, L, dirty, evs, cnts, now, in) ==
  MultiBlinkFrom(pT,
    [S |-> pS, leds |-> L, dirty |-> dirty, trap |-> FALSE,
     ev |-> evs, cnt |-> cnts],
    1, now, in)

\* The for loop of MultiBlink with its body run for the entries in the
\* order given, a sequence of indices; the code's order is 1, 2, ..., n.
RECURSIVE MultiBlinkIn(_, _, _, _, _)
MultiBlinkIn(pT, st, order, now, in) ==
  IF order = <<>> \/ st.trap
  THEN st
  ELSE MultiBlinkIn(pT,
         Merge(st, Head(order), pT[Head(order)].ledId + 1,
               ChanStep(pT[Head(order)], st.S[Head(order)],
                        st.leds[pT[Head(order)].ledId + 1],
                        [ev |-> st.ev[Head(order)], cnt |-> st.cnt[Head(order)]],
                        now, in.alloc[Head(order)], in.dz, in.gb[Head(order)])),
         Tail(order), now, in)

\* The same with the heap the entries share: "new cNeoFade" gives an
\* object while a block is free, and nullptr otherwise; delete gives the
\* block back. free is the number of blocks left.
HeapAfter(free, r) ==
  free - (IF r.ev.made THEN 1 ELSE 0) + (IF r.ev.freed THEN 1 ELSE 0)

RECURSIVE MultiBlinkHeap(_, _, _, _, _, _)
HeapTurn(pT, st, order, free, now, in, r) ==
  MultiBlinkHeap(pT, Merge(st, Head(order), pT[Head(order)].ledId + 1, r),
                 Tail(order), HeapAfter(free, r), now, in)

MultiBlinkHeap(pT, st, order, free, now, in) ==
  IF order = <<>> \/ st.trap
  THEN st
  ELSE HeapTurn(pT, st, order, free, now, in,
                ChanStep(pT[Head(order)], st.S[Head(order)],
                         st.leds[pT[Head(order)].ledId + 1],
                         [ev |-> st.ev[Head(order)], cnt |-> st.cnt[Head(order)]],
                         now, free > 0, in.dz, in.gb[Head(order)]))

----------------------------------------------------------------------------
(* The reset *)

LEDInit == [i \in 1..NUM_LEDS |-> CRGB(Black)]

\* a faulty BlinkInit, which leaves the interpolators
BlinkInit_KeepsFade(pS, now) ==
  [i \in 1..Len(pS) |->
     [pS[i] EXCEPT !.enabled = TRUE, !.currentState = 0,
                   !.lastWakeup = now, !.counter = 0]]

BlinkInit(pS, now) ==
  [i \in 1..Len(pS) |-> Scratch(TRUE, 0, now, 0, <<>>)]

InitTables(SS, now) == [k \in 1..NumTables |-> BlinkInit(SS[k], now)]

\* switchState: the value returned for the level read from the input
switchState(last, high) == ~last /\ high

----------------------------------------------------------------------------
(* The tables. Times are in milliseconds, scaled down; the colours of the  *)
(* fades are near one another so that a fade has few steps.                *)

Dim1 == Pack(0, 3, 1)
Dim2 == Pack(2, 0, 3)
Dim3 == Pack(1, 2, 0)

\* like T1: paired flashers
TabFlash ==
  << Entry(0, <<SET(2, Blue), SET(1, Red), DO(0, U32(0), U32(2)),
                SET(2, Black), NOP>>),
     Entry(1, <<SET(2, Black), SET(1, Red), SET(1, Blue),
                DO(0, U32(1), U32(2)), NOP>>) >>

\* like T2: fades, a loop with a delay, a stop
TabFade ==
  << Entry(0, <<FADE(3, Dim1, Dim2), FADE(2, Dim2, Dim1),
                DO(1, U32(0), U32(2)), STOP, NOP>>),
     Entry(1, <<FADE(3, Black, Dim3), SET(1, Dim3), FADE(1, Dim3, Black),
                NOP, NOP>>) >>

\* like T3: the chaser
TabChase ==
  << Entry(0, <<GOTO(0, U32(1)), FADE(2, Dim2, Black), GOTO(2, U32(0)),
                NOP, NOP>>),
     Entry(1, <<GOTO(1, U32(1)), FADE(2, Dim2, Black), GOTO(1, U32(0)),
                NOP, NOP>>) >>

\* two entries driving the same led
TabShare ==
  << Entry(0, <<SET(1, Blue), FADE(2, Black, Dim2), FADE(0, Dim2, Dim3),
                NOP, NOP>>),
     Entry(0, <<SET(2, Red), SET(1, Black), NOP, NOP, NOP>>) >>

\* a stop in the middle, a loop that runs once, an unknown state value
TabStop ==
  << Entry(1, <<SET(1, Red), DO(1, U32(0), U32(1)), STOP, SET(1, Blue),
                NOP>>),
     Entry(0, <<Instr(9, U32(0), U32(0), U32(0)), SET(1, Blue),
                DO(0, U32(0), U32(3)), STOP, NOP>>) >>

\* jump targets outside the table
TabWild ==
  << Entry(0, <<SET(1, Red), GOTO(1, <<0, 65534>>), NOP, NOP, NOP>>),
     Entry(1, <<DO(1, U32(7), U32(2)), GOTO(0, <<65535, 65535>>),
                SET(1, Blue), GOTO(0, U32(65536 + 1)), NOP>>) >>

TableChoices ==
  { <<TabFlash, TabFade, TabChase>>,
    <<TabShare, TabStop, TabWild>> }

\* what a read past the end of a state array can give
Garbage == { NOP, STOP, SET(1, Red), GOTO(0, <<0, 65533>>) }

----------------------------------------------------------------------------
(* The state machine *)

\* a faulty selection, one table behind
Selected_Behind == IF nTable = 0 THEN 1 ELSE nTable

Selected == nTable + 1

InitWith(tables, clocks) ==
  /\ T \in tables
  /\ clock \in clocks
  /\ S = [k \in 1..NumTables |->
            [i \in 1..Len(T[k]) |-> Scratch(TRUE, 0, clock, 0, <<>>)]]
  /\ leds = LEDInit
  /\ needsUpdate = TRUE
  /\ nTable = 0
  /\ bLastHigh = TRUE
  /\ age = 0
  /\ phase = "switch"
  /\ fault = FALSE
  /\ ev = [k \in 1..NumTables |-> [i \in 1..Len(T[k]) |-> NoEvent]]
  /\ cnt = [k \in 1..NumTables |-> [i \in 1..Len(T[k]) |-> NoCount]]
  /\ lastInit = clock
  /\ late = FALSE

Init == InitWith(TableChoices, {U32(0)})

\* a millisecond goes by, up to the horizon of the model
Tick(horizon) ==
  /\ ~fault
  /\ age < horizon
  /\ clock' = Add32(clock, U32(1))
  /\ age' = age + 1
  /\ late' = TRUE
  /\ UNCHANGED <<T, S, leds, needsUpdate, nTable, bLastHigh, phase, fault,
                 ev, cnt, lastInit>>

ClockTick == Tick(MaxTime)

\* BlinkInit, observed: "if (pS->nf != nullptr) delete pS->nf"
Deleted(s, n) ==
  [NoCount EXCEPT !.live = n.live - (IF s.nf # <<>> THEN 1 ELSE 0)]

\* loop(): if (switchState()) { nTable++; InitTables(); }
LoopSwitch(high) ==
  /\ ~fault
  /\ phase = "switch"
  /\ bLastHigh' = high
  /\ IF switchState(bLastHigh, high)
     THEN /\ nTable' = (nTable + 1) % 256
          /\ leds' = LEDInit
          /\ S' = InitTables(S, clock)
          /\ needsUpdate' = TRUE
          /\ ev' = [k \in 1..NumTables |-> [i \in 1..Len(T[k]) |-> NoEvent]]
          /\ cnt' = [k \in 1..NumTables |->
                       [i \in 1..Len(T[k]) |-> Deleted(S[k][i], cnt[k][i])]]
          /\ lastInit' = clock
     ELSE UNCHANGED <<nTable, leds, S, needsUpdate, ev, cnt, lastInit>>
  /\ phase' = "show"
  /\ UNCHANGED <<T, clock, age, fault, late>>

\* loop(): if (needsUpdate) { FastLED.show(); needsUpdate = false; }
LoopShow ==
  /\ ~fault
  /\ phase = "show"
  /\ needsUpdate' = FALSE
  /\ phase' = "blink"
  /\ UNCHANGED <<T, S, leds, nTable, bLastHigh, clock, age, fault, ev, cnt,
                 lastInit, late>>

AllocChoices(n) == [1..n -> BOOLEAN]

DzChoices(pT) ==
  IF \E i \in 1..Len(pT) : \E j \in 1..MAX_STATE :
       /\ pT[i].state[j].stateID = MB_FADE
       /\ CRGB(pT[i].state[j].data1) = CRGB(pT[i].state[j].data2)
  THEN DivZeroOutcomes
  ELSE {0}

GbChoices(pS) ==
  { g \in [1..Len(pS) -> Garbage] :
      \A i \in 1..Len(pS) : pS[i].currentState < MAX_STATE => g[i] = NOP }

\* the state after the pass over the selected table gave r
Passed(r) ==
  /\ S' = [S EXCEPT ![Selected] = r.S]
  /\ leds' = r.leds
  /\ needsUpdate' = r.dirty
  /\ fault' = r.trap
  /\ ev' = [ev EXCEPT ![Selected] = r.ev]
  /\ cnt' = [cnt EXCEPT ![Selected] = r.cnt]

\* loop(): switch (nTable) { case 0: MultiBlink(T1, S1, ...); ... }
LoopBlink ==
  /\ ~fault
  /\ phase = "blink"
  /\ phase' = "switch"
  /\ IF nTable < NumTables
     THEN /\ \E al \in AllocChoices(Len(T[Selected])),
                dz \in DzChoices(T[Selected]),
                gb \in GbChoices(S[Selected]) :
               Passed(MultiBlink(T[Selected], S[Selected], leds, needsUpdate,
                                 ev[Selected], cnt[Selected], clock,
                                 [alloc |-> al, dz |-> dz, gb |-> gb]))
          /\ late' = FALSE
          /\ UNCHANGED nTable
     ELSE /\ nTable' = 0
          /\ UNCHANGED <<S, leds, needsUpdate, fault, ev, cnt, late>>
  /\ UNCHANGED <<T, bLastHigh, clock, age, lastInit>>

Next ==
  \/ ClockTick
  \/ \E high \in BOOLEAN : LoopSwitch(high)
  \/ LoopShow
  \/ LoopBlink

Spec == Init /\ [][Next]_vars

\* loop() is called again and again by the Arduino core and each of its
\* steps returns, and millis() goes on counting (here up to the horizon).
\* The third step can always be taken when loop() is at it, so that weak
\* fairness for it is []<><<PassTaken>>_vars.
PassTaken == phase = "blink" /\ phase' = "switch"

LiveTime == 3

LiveTables == { <<TabWild, TabStop, TabFlash>> }

InitLive == InitWith(LiveTables, {U32(0)})

LiveTick == Tick(LiveTime)

NextLive ==
  \/ LiveTick
  \/ \E high \in BOOLEAN : LoopSwitch(high)
  \/ LoopShow
  \/ LoopBlink

SpecLive ==
  /\ InitLive /\ [][NextLive]_vars
  /\ WF_vars(\E high \in BOOLEAN : LoopSwitch(high))
  /\ WF_vars(LoopShow)
  /\ []<><<PassTaken>>_vars
  /\ WF_vars(LiveTick)

----------------------------------------------------------------------------
(* The same, started also a few milliseconds before millis() wraps *)

NearWrap == <<Half - 1, Half - 3>>

InitWrap == InitWith(TableChoices, {U32(0), NearWrap})

SpecWrap == InitWrap /\ [][Next]_vars

----------------------------------------------------------------------------
(* Fades between equal colours *)

TabSame ==
  << Entry(0, <<FADE(2, Dim1, Dim1), SET(1, Red), NOP, NOP, NOP>>),
     Entry(1, <<SET(1, Blue), FADE(3, Blue, Blue), NOP, NOP, NOP>>) >>

InitSame == InitWith({ <<TabSame, TabSame, TabSame>> }, {U32(0)})

SpecSame == InitSame /\ [][Next]_vars

----------------------------------------------------------------------------
(* A loop of 65536 rounds, with a pass every millisecond and no switch     *)

LongTime == 65540

TabLong == << Entry(0, <<DO(1, U32(0), U32(65536)), STOP, NOP, NOP, NOP>>) >>

InitLong == InitWith({ <<TabLong, TabLong, TabLong>> }, {U32(0)})

\* loop() runs once in every millisecond: the millisecond goes by between
\* two iterations, and the next iteration starts after it
SteadyTick(horizon) == phase = "switch" /\ ~late /\ Tick(horizon)

SteadyLoop(high) == late /\ LoopSwitch(high)

NextLong ==
  \/ SteadyTick(LongTime)
  \/ SteadyLoop(TRUE)
  \/ LoopShow
  \/ LoopBlink

SpecLong == InitLong /\ [][NextLong]_vars

----------------------------------------------------------------------------
(* Table T1's first row, at its real times, with at least one pass in      *)
(* every millisecond and no switch                                         *)

FlashTime == 2405

TabT1 ==
  << Entry(0, <<SET(100, Blue), SET(50, Red), DO(0, U32(0), U32(4)),
                SET(600, Black), NOP>>) >>

InitT1 == InitWith({ <<TabT1, TabT1, TabT1>> }, {U32(0)})

\* a millisecond goes by, and not before the last one has had its pass
PacedTick(horizon) == ~late /\ Tick(horizon)

NextT1 ==
  \/ PacedTick(FlashTime)
  \/ LoopSwitch(TRUE)
  \/ LoopShow
  \/ LoopBlink

SpecT1 == InitT1 /\ [][NextT1]_vars

----------------------------------------------------------------------------
(* The fades of the tables above under any schedule, and a fade from black *)
(* to white over 500 ms with one pass in every millisecond and no switch   *)

WhiteTime == 505

TabWhite == << Entry(0, <<FADE(500, Black, White), NOP, NOP, NOP, NOP>>) >>

WhiteTables == <<TabWhite, TabWhite, TabWhite>>

InitFade == InitWith(TableChoices \cup {WhiteTables}, {U32(0)})

NextFade ==
  \/ T # WhiteTables /\ ClockTick
  \/ T # WhiteTables /\ (\E high \in BOOLEAN : LoopSwitch(high))
  \/ T = WhiteTables /\ SteadyTick(WhiteTime)
  \/ T = WhiteTables /\ SteadyLoop(TRUE)
  \/ LoopShow
  \/ LoopBlink

SpecFade == InitFade /\ [][NextFade]_vars

----------------------------------------------------------------------------
(* cNeoFade by itself: an interpolator set up for a pair of colours and a  *)
(* period, as the first pass at a FADE leaves it, and getNext called each  *)
(* time a step is due                                                      *)

MaxComp == 3

LineColours == { Pack(r, g, b) : r \in 0..MaxComp, g \in 0..MaxComp,
                                 b \in 0..MaxComp }

LinePairs ==
  { p \in LineColours \X LineColours : p[1] # p[2] }
    \cup { <<Black, White>>, <<White, Black>>,
           <<Pack(255, 0, 128), Pack(0, 255, 127)>>,
           <<Pack(10, 200, 30), Pack(250, 0, 30)>> }

LinePeriods == {0, 3, 500, 70000}

LineTab(t, c1, c2) == << Entry(0, <<FADE(t, c1, c2), NOP, NOP, NOP, NOP>>) >>

LineTables ==
  { <<LineTab(t, p[1], p[2]), LineTab(t, p[1], p[2]), LineTab(t, p[1], p[2])>> :
      t \in LinePeriods, p \in LinePairs }

\* the state after the first pass, at time 0, at the FADE of the table
InitLine ==
  /\ T \in LineTables
  /\ clock = U32(0)
  /\ S = [k \in 1..NumTables |->
            [i \in 1..Len(T[k]) |->
               IF k = 1
               THEN FadeBegin(T[k][i].state[1],
                              Scratch(TRUE, 0, clock, 0, <<>>),
                              CRGB(Black), TRUE, 0).s
               ELSE Scratch(TRUE, 0, clock, 0, <<>>)]]
  /\ leds = [LEDInit EXCEPT ![1] = CRGB(T[1][1].state[1].data1)]
  /\ needsUpdate = TRUE
  /\ nTable = 0
  /\ bLastHigh = TRUE
  /\ age = 0
  /\ phase = "switch"
  /\ fault = FALSE
  /\ ev = [k \in 1..NumTables |-> [i \in 1..Len(T[k]) |-> NoEvent]]
  /\ cnt = [k \in 1..NumTables |->
              [i \in 1..Len(T[k]) |->
                 [NoCount EXCEPT !.live = IF k = 1 THEN 1 ELSE 0]]]
  /\ lastInit = clock
  /\ late = FALSE

\* the time at which the interpolator's next step is due
Due(f) == Add32(f.timeStart, f.timeInterval)

LineGot(g) ==
  /\ S' = [S EXCEPT ![1][1].nf = <<g.nf>>]
  /\ cnt' = [cnt EXCEPT ![1][1].steps = IF g.valid THEN @ + 1 ELSE @,
                        ![1][1].last = <<g.rgb>>]

\* pS->nf->getNext(now, &rgb) at the time the step is due
LineStep ==
  /\ S[1][1].nf # <<>>
  /\ ~S[1][1].nf[1].ended
  /\ clock' = Due(S[1][1].nf[1])
  /\ LineGot(getNext(S[1][1].nf[1], Due(S[1][1].nf[1]), Due(S[1][1].nf[1])))
  /\ UNCHANGED <<T, leds, needsUpdate, nTable, bLastHigh, age, phase, fault,
                 ev, lastInit, late>>

SpecLine == InitLine /\ [][LineStep]_vars



Chans == { c \in (1..NumTables) \X (1..2) : c[2] <= Len(T[c[1]]) }

Sc(c) == S[c[1]][c[2]]
Ent(c) == T[c[1]][c[2]]
Ev(c) == ev[c[1]][c[2]]
Cnt(c) == cnt[c[1]][c[2]]

\* the instruction at the channel's state index, when that is in the table
InTable(c) == Sc(c).currentState < MAX_STATE
Active(c) == Ent(c).state[Sc(c).currentState + 1]

\* C1: after any tick and any reset, every channel's state index
\* (currentState) is in 0..MAX_STATE-1, whatever the jump targets of the
\* table are. The code breaks this: a jump target whose low 16 bits read as
\* a negative int16_t other than -1 gives a negative remainder, stored in a
\* uint8_t.
C1_StateInBounds == \A c \in Chans : Sc(c).currentState \in 0..(MAX_STATE - 1)

\* C2: a LOOP DO(delay, target, n), n >= 1, entered with the counter at 0
\* expires exactly n times before the channel falls through: expiries
\* 1..n-1 jump, expiry n goes on to the next instruction with the counter
\* back at 0. (Every table here has one LOOP per program, so each is entered
\* with the counter at 0.) The code breaks this for n >= 65536: the counter
\* is a uint16_t and never reaches n.
C2_LoopCount ==
  \A c \in Chans :
    (Ev(c).proc /\ Ev(c).I.stateID = MB_LOOP /\ Ev(c).expired
       /\ Ge32(Ev(c).I.data2, U32(1)))
    => /\ ~Lt32(Ev(c).I.data2, U32(Ev(c).loopK))
       /\ Lt32(U32(Ev(c).loopK), Ev(c).I.data2) => ~Ev(c).seq
       /\ U32(Ev(c).loopK) = Ev(c).I.data2
            => Ev(c).seq /\ Sc(c).counter = 0

\* a later entry of the same table that drives the same led wrote in the
\* last pass
LaterWriter(c) ==
  \E d \in Chans : /\ d[1] = c[1] /\ d[2] > c[2]
                   /\ Ent(d).ledId = Ent(c).ledId
                   /\ Ev(d).wrote # <<>>

Slot(c) == leds[Ent(c).ledId + 1]

FadeExpired(c) ==
  Ev(c).proc /\ Ev(c).I.stateID = MB_FADE /\ Ev(c).expired

\* C3 as stated: in the pass that finds a FADE expired, the channel goes on
\* to the next instruction and its led's slot holds the end colour when the
\* pass is over.
C3_SlotHoldsTarget ==
  \A c \in Chans :
    FadeExpired(c) => Ev(c).seq /\ Slot(c) = CRGB(Ev(c).I.data2)

\* C3, amended: in the pass that finds a FADE expired, the channel writes
\* exactly the end colour to its led's slot and goes on to the next
\* instruction, whatever the interpolator gave before; the slot still holds
\* the end colour when the pass is over unless a later entry of the table
\* that drives the same led wrote it in that pass.
C3_FadeEndsOnTarget ==
  \A c \in Chans :
    FadeExpired(c)
    => /\ Ev(c).wrote = Wr("final", CRGB(Ev(c).I.data2))
       /\ Ev(c).seq
       /\ Sc(c).currentState = (Ev(c).from + 1) % MAX_STATE
       /\ ~LaterWriter(c) => Slot(c) = CRGB(Ev(c).I.data2)

\* a fade cut short: the deadline came while the last colour given was not
\* yet the end colour
C3_Witness ==
  \E c \in Chans :
    /\ FadeExpired(c)
    /\ Ev(c).prev # <<>> /\ Ev(c).prev[1] # CRGB(Ev(c).I.data2)
    /\ Slot(c) = CRGB(Ev(c).I.data2)

\* no other entry of the channel's table drives its led
Alone(c) ==
  \A d \in Chans : (d[1] = c[1] /\ d # c) => Ent(d).ledId # Ent(c).ledId

HeldSet(c) == Ev(c).proc /\ Ev(c).I.stateID = MB_SET /\ Ev(c).again

\* C4 as stated: a SET held over several passes writes at most once, in the
\* first of them: a pass that finds the channel at the SET it was already
\* at in the pass before writes nothing.
C4_SetWritesOnce ==
  \A c \in Chans : HeldSet(c) => Ev(c).wrote = <<>> /\ ~Ev(c).dirty

\* C4, amended: the same, for a channel whose led no other entry of its
\* table drives (and whose state index is inside the table).
C4_SetWritesOnceAlone ==
  \A c \in Chans :
    (Alone(c) /\ Ev(c).from < MAX_STATE /\ HeldSet(c))
    => Ev(c).wrote = <<>> /\ ~Ev(c).dirty

\* a SET that wrote in an earlier pass and is held, silent, in a later one
C4_Witness ==
  \E c \in Chans :
    Alone(c) /\ HeldSet(c) /\ Ev(c).prev # <<>> /\ Ev(c).wrote = <<>>

\* the step is a reset: loop() found the switch's rising edge
ResetStep == phase = "switch" /\ nTable' # nTable

\* the step is a pass of MultiBlink over table k that ran to its end
PassStep(k) ==
  /\ phase = "blink" /\ phase' = "switch"
  /\ nTable < NumTables /\ k = Selected /\ ~fault'

C5_StopDisables ==
  \A c \in Chans :
    (Ev(c).proc /\ Ev(c).I.stateID = MB_STOP)
    => ~Sc(c).enabled /\ Ev(c).wrote = <<>> /\ ~Ev(c).dirty /\ ~Ev(c).trans

C5_Frozen ==
  \A c \in Chans :
    (~Sc(c).enabled /\ ~ResetStep)
    => /\ S'[c[1]][c[2]] = Sc(c)
       /\ PassStep(c[1]) => ev'[c[1]][c[2]] = NoEvent

\* C5: a channel that runs STOP is disabled by it, and from then until the
\* next reset no step changes its scratchpad (state index, lastWakeup,
\* counter, interpolator, enabled) and every pass leaves it out: no write,
\* no dirty flag.
C5_StopTerminal == []C5_StopDisables /\ [][C5_Frozen]_vars

\* a stopped channel that a later pass has left out
C5_Witness ==
  \E c \in Chans :
    /\ ~Sc(c).enabled /\ ~Ev(c).proc /\ InTable(c)
    /\ Active(c).stateID = MB_STOP /\ late

\* C6: a reset, from any state, leaves every channel of every table
\* enabled, at state index 0, with counter 0, lastWakeup the time of the
\* reset and no interpolator, every led black and the dirty flag set.
C6_ResetComplete ==
  [][ ResetStep
      => /\ \A c \in Chans :
              S'[c[1]][c[2]] = Scratch(TRUE, 0, clock, 0, <<>>)
         /\ \A i \in 1..NUM_LEDS : leds'[i] = RGB(0, 0, 0)
         /\ needsUpdate' = TRUE ]_vars

\* the state a reset leaves, some time after the start
C6_Witness ==
  /\ phase = "show" /\ nTable > 0 /\ age > 1 /\ lastInit = clock
  /\ \A c \in Chans : Sc(c) = Scratch(TRUE, 0, clock, 0, <<>>)

Abs(x) == IF x < 0 THEN 0 - x ELSE x

\* max(|dR|, |dG|, |dB|) of a FADE instruction
DMaxOf(I) ==
  LET a == CRGB(I.data1)
      b == CRGB(I.data2)
      d == { Abs(a.r - b.r), Abs(a.g - b.g), Abs(a.b - b.b) }
  IN  CHOOSE m \in d : \A x \in d : x <= m

\* C7: the colours a FADE's interpolator gives between the start colour and
\* the forced end colour number at most max(|dR|, |dG|, |dB|), for any
\* schedule of passes; and so do the different colours the channel writes
\* before the end colour, the start colour among them.
C7_StepBound ==
  \A c \in Chans :
    /\ Cnt(c).steps > 0
         => /\ InTable(c) /\ Active(c).stateID = MB_FADE
            /\ Cnt(c).steps <= DMaxOf(Active(c))
    /\ (InTable(c) /\ Active(c).stateID = MB_FADE /\ DMaxOf(Active(c)) > 0)
         => Cnt(c).vals <= DMaxOf(Active(c))

\* a fade that gave all its steps before the deadline
C7_Witness ==
  \E c \in Chans :
    /\ InTable(c) /\ Active(c).stateID = MB_FADE
    /\ Cnt(c).steps >= 2 /\ Cnt(c).steps = DMaxOf(Active(c))
    /\ Cnt(c).vals = DMaxOf(Active(c))

\* C10 as stated: a channel owns an interpolator if and only if its active
\* instruction is a FADE (still to complete).
C10_OwnsIffFading ==
  \A c \in Chans :
    (Sc(c).nf # <<>>) <=> (InTable(c) /\ Active(c).stateID = MB_FADE)

\* C10, amended: a channel owns an interpolator only if it is enabled and
\* its active instruction is a FADE; and a channel that a pass found at a
\* FADE not yet expired owns one after that pass, unless the allocation
\* failed. (Between coming to a FADE and the first pass there, and after a
\* failed allocation, a channel at a FADE owns none.)
C10_OwnsOnlyFading ==
  \A c \in Chans :
    /\ Sc(c).nf # <<>>
         => Sc(c).enabled /\ InTable(c) /\ Active(c).stateID = MB_FADE
    /\ (Ev(c).proc /\ Ev(c).I.stateID = MB_FADE /\ ~Ev(c).expired
          /\ ~Ev(c).allocFail)
         => Sc(c).nf # <<>>

\* an interpolator that ended before the deadline and is still owned
C10_Witness ==
  \E c \in Chans : Sc(c).nf # <<>> /\ Sc(c).nf[1].ended

\* the colours of T1's first row by the time since the start of its period
\* of 100 + 3 * (50 + 100) + 50 + 600 ms
T1Period == 100 + 3 * (50 + 100) + 50 + 600

T1Colour(ph) ==
  IF ph >= 600 THEN CRGB(Black)
  ELSE IF ph % 150 < 100 THEN CRGB(Blue) ELSE CRGB(Red)

\* when the colour at ph began
T1Since(ph) ==
  IF ph >= 600 THEN 600
  ELSE IF ph % 150 < 100 THEN ph - (ph % 150) ELSE ph - (ph % 150) + 100

T1Before(ph) == T1Colour((T1Since(ph) + T1Period - 1) % T1Period)

\* the logical time, within the period, at which the instruction at pc
\* begins in round ctr of the loop
T1Offset(pc, ctr) ==
  CASE pc = 0 -> 150 * ctr
    [] pc = 1 -> 150 * ctr + 100
    [] pc = 2 -> 150 * ctr + 150
    [] pc = 3 -> 600
    [] OTHER  -> 0

AsInt(u) == u[1] * Half + u[2]

Between(a, x, b) == (a <= x /\ x <= b) \/ (b <= x /\ x <= a)

\* colour x lies, component by component, between colours a and b
Within(a, x, b) ==
  Between(a.r, x.r, b.r) /\ Between(a.g, x.g, b.g) /\ Between(a.b, x.b, b.b)

FadeWrote(c) ==
  Ev(c).proc /\ Ev(c).I.stateID = MB_FADE /\ Ev(c).wrote # <<>>

\* what C9 asks of the colours after the first
FadeOnCourse(c) ==
  /\ Within(CRGB(Ev(c).I.data1), Ev(c).wrote[1].rgb, CRGB(Ev(c).I.data2))
  /\ Ev(c).prev # <<>>
       => Within(Ev(c).prev[1], Ev(c).wrote[1].rgb, CRGB(Ev(c).I.data2))
  /\ Ev(c).expired => Ev(c).wrote[1].rgb = CRGB(Ev(c).I.data2)
  /\ (Ev(c).I.data1 = Black /\ Ev(c).I.data2 = White)
       => /\ Ev(c).wrote[1].rgb.r = Ev(c).wrote[1].rgb.g
          /\ Ev(c).wrote[1].rgb.g = Ev(c).wrote[1].rgb.b
          /\ Ev(c).prev # <<>> => Ev(c).prev[1].r <= Ev(c).wrote[1].rgb.r

\* C9 as stated: the first colour a channel writes at a FADE(T, c0, c1) is
\* c0, the colour written once T has gone by is c1, and each colour in
\* between lies between the one before and c1 (so between c0 and c1), in
\* every component; from BLACK to WHITE every colour has r = g = b, never
\* decreasing.
C9_FadeFromStart ==
  \A c \in Chans :
    FadeWrote(c)
    => /\ FadeOnCourse(c)
       /\ Ev(c).prev = <<>> => Ev(c).wrote[1].rgb = CRGB(Ev(c).I.data1)

\* C9, amended: the same, but the first colour written is c0 only if T has
\* not gone by at the first pass at the FADE; if it has (T = 0, or a late
\* pass) the only colour written is c1.
C9_FadeCourse ==
  \A c \in Chans :
    FadeWrote(c)
    => /\ FadeOnCourse(c)
       /\ (Ev(c).prev = <<>> /\ ~Ev(c).expired)
            => Ev(c).wrote[1].rgb = CRGB(Ev(c).I.data1)
       /\ (Ev(c).prev = <<>> /\ Ev(c).expired)
            => Ev(c).wrote[1].rgb = CRGB(Ev(c).I.data2)

\* the fade from black to white at its end: the last colour given was one
\* step from white, and white is written
C9_Witness ==
  \E c \in Chans :
    /\ FadeExpired(c)
    /\ Ev(c).I.data1 = Black /\ Ev(c).I.data2 = White
    /\ Ev(c).prev = <<RGB(254, 254, 254)>>
    /\ Ev(c).wrote = Wr("final", CRGB(White))

\* the pass of this step ran the channel
RanIn(c) == PassStep(c[1]) /\ ev'[c[1]][c[2]].proc

C11_SumOfTimes ==
  \A c \in Chans : Sc(c).lastWakeup = Add32(lastInit, Cnt(c).done)

C11_Step ==
  \A c \in Chans :
    /\ ResetStep => S'[c[1]][c[2]].lastWakeup = clock
    /\ (RanIn(c) /\ ev'[c[1]][c[2]].trans)
         => S'[c[1]][c[2]].lastWakeup
              = Add32(Sc(c).lastWakeup, ev'[c[1]][c[2]].I.activeTime)
    /\ (~ResetStep /\ ~(RanIn(c) /\ ev'[c[1]][c[2]].trans))
         => S'[c[1]][c[2]].lastWakeup = Sc(c).lastWakeup

\* C11: a transition, in sequence or by a jump, adds to lastWakeup exactly
\* the activeTime of the instruction left, however late the pass; a step
\* without a transition leaves lastWakeup alone, and a reset sets it to the
\* time of the reset. So lastWakeup is always the time of the last reset
\* plus the activeTimes of the instructions left since, modulo 2^32.
C11_NoDrift == []C11_SumOfTimes /\ [][C11_Step]_vars

\* a late transition across the wrap of millis(): lastWakeup has wrapped
\* and is behind the clock
C11_Witness ==
  \E c \in Chans :
    /\ Ev(c).trans /\ Ev(c).I.activeTime # U32(0)
    /\ lastInit[1] = Half - 1 /\ Sc(c).lastWakeup[1] = 0
    /\ Lt32(Sc(c).lastWakeup, clock)

GotoExpired(c) ==
  Ev(c).proc /\ Ev(c).I.stateID = MB_GOTO /\ Ev(c).expired

\* C12: a GOTO(t, j) found expired always makes the channel leave it, by a
\* jump and not in sequence, for every j; when j is an index of the table
\* the state index afterwards is j. The code breaks this for a j whose low
\* 16 bits are 65535: nextState is then -1, which stands for "no jump".
C12_GotoJumps ==
  \A c \in Chans :
    GotoExpired(c)
    => /\ Ev(c).trans /\ ~Ev(c).seq
       /\ (Ev(c).I.data1[1] = 0 /\ Ev(c).I.data1[2] < MAX_STATE)
            => Sc(c).currentState = Ev(c).I.data1[2]

SameFade(c) ==
  /\ Ev(c).proc /\ Ev(c).I.stateID = MB_FADE
  /\ Ev(c).I.data1 = Ev(c).I.data2 /\ Ev(c).I.activeTime # U32(0)

\* C13: a FADE between equal colours, of duration > 0, sets up its
\* interpolator without an arithmetic fault; the interpolator gives no
\* colour; the channel shows that colour and stays until the deadline, and
\* then goes on. The code breaks the first part: setFade divides the period
\* by _steps = 0.
C13_SameColourFade ==
  /\ ~fault
  /\ \A c \in Chans :
       SameFade(c)
       => /\ Cnt(c).steps = 0
          /\ Slot(c) = CRGB(Ev(c).I.data1)
          /\ Ev(c).trans <=> Ev(c).expired
          /\ Ev(c).expired => Ev(c).seq

\* the same without the fault: what the builds that do not trap on the
\* division do
C13_SameColourHolds ==
  \A c \in Chans :
    SameFade(c)
    => /\ Cnt(c).steps = 0
       /\ Slot(c) = CRGB(Ev(c).I.data1)
       /\ Ev(c).trans <=> Ev(c).expired
       /\ Ev(c).expired => Ev(c).seq

\* the pass that failed to allocate left the channel where it was, with no
\* interpolator and no colour from one
C14_FailedLeaves ==
  \A c \in Chans :
    Ev(c).allocFail
    => /\ Ev(c).I.stateID = MB_FADE /\ ~Ev(c).expired
       /\ Sc(c).nf = <<>> /\ Cnt(c).steps = 0
       /\ ~Ev(c).trans /\ Sc(c).currentState = Ev(c).from

\* the next pass after one that failed to allocate is at the same FADE and
\* tries again
C14_TriesAgain(c) ==
  /\ ev'[c[1]][c[2]].I = Ev(c).I /\ ev'[c[1]][c[2]].from = Ev(c).from
  /\ IsKind(ev'[c[1]][c[2]].wrote, "start")
  /\ ~ev'[c[1]][c[2]].trans
  /\ ev'[c[1]][c[2]].allocFail <=> S'[c[1]][c[2]].nf = <<>>

\* the next pass after one that failed to allocate finds the FADE expired,
\* writes the end colour and goes on
C14_RunsOut(c) ==
  /\ ev'[c[1]][c[2]].I = Ev(c).I /\ ev'[c[1]][c[2]].from = Ev(c).from
  /\ ev'[c[1]][c[2]].wrote = Wr("final", CRGB(Ev(c).I.data2))
  /\ ev'[c[1]][c[2]].seq
  /\ S'[c[1]][c[2]].nf = <<>>

\* C14 as stated: when the allocation fails at a FADE not yet expired the
\* channel stays, with no interpolator, and every later pass tries again,
\* the channel staying at the FADE until an allocation succeeds or a reset.
C14_StuckUntilAllocated ==
  /\ []C14_FailedLeaves
  /\ [][\A c \in Chans :
          (Ev(c).allocFail /\ RanIn(c)) => C14_TriesAgain(c)]_vars

\* C14, amended: when the allocation fails at a FADE not yet expired the
\* channel stays, with no interpolator (the start colour is written all
\* the same), and every later pass before the deadline tries again; the
\* channel stays at the FADE until its deadline or a reset, and at the
\* deadline writes the end colour and goes on whether or not an allocation
\* ever succeeded. (s.nf is read only where it is not null: the model has
\* no value to give otherwise.)
C14_RetriesUntilDeadline ==
  /\ []C14_FailedLeaves
  /\ [][\A c \in Chans :
          (Ev(c).allocFail /\ RanIn(c))
          => IF ev'[c[1]][c[2]].expired THEN C14_RunsOut(c)
             ELSE C14_TriesAgain(c)]_vars

\* an allocation that succeeded after one that failed
C14_Witness ==
  \E c \in Chans :
    /\ Sc(c).nf # <<>> /\ IsKind(Ev(c).wrote, "start")
    /\ Ev(c).again /\ Ev(c).prev = <<CRGB(Ev(c).I.data1)>>

\* the three parts of an iteration of loop(), by the place loop() is at
SampleStep == phase = "switch" /\ phase' # "switch"
FlushStep  == phase = "show" /\ phase' # "show"
BlinkStep  == phase = "blink" /\ phase' # "blink"

\* the edge detector is sampled, and a rising edge resets; then comes the
\* flush
C15_Sample ==
  SampleStep
  => /\ phase' = "show"
     /\ (nTable' # nTable) <=> (~bLastHigh /\ bLastHigh')
     /\ nTable' = nTable \/ nTable' = (nTable + 1) % 256

\* the flush, if and only if the flag is set (the flag is down afterwards
\* in either case, and the colours are as they were); then comes the pass
C15_Flush ==
  FlushStep
  => phase' = "blink" /\ ~needsUpdate' /\ leds' = leds /\ S' = S

\* the step is one pass of MultiBlink over the table that nTable selects
C15_PassTaken ==
  /\ nTable < NumTables /\ nTable' = nTable
  /\ \E al \in AllocChoices(Len(T[nTable + 1])),
        dz \in DzChoices(T[nTable + 1]),
        gb \in GbChoices(S[nTable + 1]) :
       /\ S' = [S EXCEPT ![nTable + 1] =
                  MultiBlink(T[nTable + 1], S[nTable + 1], leds, needsUpdate,
                             ev[nTable + 1], cnt[nTable + 1], clock,
                             [alloc |-> al, dz |-> dz, gb |-> gb]).S]
       /\ leds' =
            MultiBlink(T[nTable + 1], S[nTable + 1], leds, needsUpdate,
                       ev[nTable + 1], cnt[nTable + 1], clock,
                       [alloc |-> al, dz |-> dz, gb |-> gb]).leds

\* the step runs no pass: it only takes nTable back to the first table
C15_NoPass ==
  nTable >= NumTables /\ nTable' = 0 /\ S' = S /\ leds' = leds
    /\ needsUpdate' = needsUpdate /\ ev' = ev

\* C15 as stated: every iteration of loop() samples the edge detector, then
\* flushes if and only if the flag is set, then runs exactly one pass of
\* MultiBlink over the selected table, whatever the number of switches.
C15_OnePassEachLoop ==
  [][ /\ C15_Sample
      /\ C15_Flush
      /\ BlinkStep => phase' = "switch" /\ C15_PassTaken ]_vars

\* C15, amended: the same, but the iteration that finds nTable past the
\* last table (the first one after every third switch) runs no pass: it
\* sets nTable back to 0, and the first table runs from the next iteration.
C15_OnePassUnlessWrap ==
  [][ /\ C15_Sample
      /\ C15_Flush
      /\ BlinkStep => /\ phase' = "switch"
                      /\ C15_PassTaken \/ C15_NoPass ]_vars

\* after an iteration without a pass: nTable is back at 0 at the time of a
\* reset, and no pass has run since
C15_Witness ==
  /\ nTable = 0 /\ age > 0 /\ lastInit = clock /\ phase = "switch" /\ late
  /\ \A c \in Chans : ~Ev(c).proc

\* the interpolator of the first channel, its FADE and its current colour
Nf == S[1][1].nf[1]
NfFade == T[1][1].state[1]
NfColour(f) == RGB(f.r0, f.g0, f.b0)

\* the component moves by 0 or 1, towards the end colour
OneToward(old, new, end) == Abs(new - old) <= 1 /\ Between(old, new, end)

C16_Counts ==
  /\ Nf.steps = DMaxOf(NfFade) - cnt[1][1].steps
  /\ Nf.ended => cnt[1][1].steps = DMaxOf(NfFade)
  /\ cnt[1][1].steps < DMaxOf(NfFade) => ~Nf.ended
  /\ Within(CRGB(NfFade.data1), NfColour(Nf), CRGB(NfFade.data2))
  /\ cnt[1][1].steps = DMaxOf(NfFade)
       => NfColour(Nf) = CRGB(NfFade.data2)

C16_Moves ==
  /\ OneToward(Nf.r0, S'[1][1].nf[1].r0, CRGB(NfFade.data2).r)
  /\ OneToward(Nf.g0, S'[1][1].nf[1].g0, CRGB(NfFade.data2).g)
  /\ OneToward(Nf.b0, S'[1][1].nf[1].b0, CRGB(NfFade.data2).b)

\* C16: the interpolator that setFade sets up for two different colours
\* takes exactly max(|dR|, |dG|, |dB|) steps before it says it has ended;
\* each step moves every component by 0 or 1 towards the end colour, and
\* after the last step its colour is the end colour, in all three.
C16_LineToTarget == []C16_Counts /\ [][C16_Moves]_vars

\* a line of 255 steps between colours that differ in all three
\* components, run to its end
C16_Witness ==
  /\ NfFade.data1 = Pack(255, 0, 128) /\ NfFade.data2 = Pack(0, 255, 127)
  /\ Nf.ended /\ cnt[1][1].steps = 255
  /\ NfColour(Nf) = RGB(0, 255, 127)

\* C17: for a FADE of duration T, the instruction's 32-bit activeTime, with
\* steps = max(|dR|, |dG|, |dB|) > 0, the interval between the steps is
\* floor(T / steps), or 1 ms if that is 0. The code breaks this for
\* T >= 65536: setFade takes the period as a uint16_t.
C17_StepInterval ==
  \A c \in Chans :
    (Sc(c).nf # <<>> /\ InTable(c) /\ Active(c).stateID = MB_FADE
       /\ DMaxOf(Active(c)) > 0)
    => Sc(c).nf[1].timeInterval
         = IF AsInt(Active(c).activeTime) \div DMaxOf(Active(c)) = 0
           THEN U32(1)
           ELSE U32(AsInt(Active(c).activeTime) \div DMaxOf(Active(c)))

\* the same for the durations below 65536
C17_ShortInterval ==
  \A c \in Chans :
    (Sc(c).nf # <<>> /\ InTable(c) /\ Active(c).stateID = MB_FADE
       /\ DMaxOf(Active(c)) > 0 /\ Active(c).activeTime[1] = 0)
    => Sc(c).nf[1].timeInterval
         = IF Active(c).activeTime[2] \div DMaxOf(Active(c)) = 0
           THEN U32(1)
           ELSE U32(Active(c).activeTime[2] \div DMaxOf(Active(c)))

Timed(c) ==
  Ev(c).proc /\ Ev(c).I.stateID \in {MB_SET, MB_FADE, MB_LOOP, MB_GOTO}

\* the interpolator has ended and the deadline has not come
LineEnded(c) ==
  /\ Ev(c).proc /\ Ev(c).I.stateID = MB_FADE /\ ~Ev(c).expired
  /\ Sc(c).nf # <<>> /\ Sc(c).nf[1].ended

\* C18: a channel at a SET, FADE, LOOP or GOTO leaves it in a pass only if
\* now - lastWakeup >= activeTime in that pass; a FADE whose interpolator
\* has ended before the deadline stays, its colour as it was, until the
\* deadline.
C18_TimerDecides ==
  \A c \in Chans :
    /\ Timed(c)
         => /\ Ev(c).trans => Ev(c).expired
            /\ ~Ev(c).expired => Sc(c).currentState = Ev(c).from
    /\ LineEnded(c)
         => /\ ~Ev(c).trans /\ Ev(c).wrote = <<>> /\ ~Ev(c).dirty
            /\ Alone(c) => <<Slot(c)>> = Cnt(c).last

\* a fade that has given all its colours, held at the FADE for a second
\* pass at least
C18_Witness ==
  \E c \in Chans :
    /\ LineEnded(c) /\ Ev(c).again
    /\ Cnt(c).steps = DMaxOf(Ev(c).I) /\ Alone(c)

Owned(c) == IF Sc(c).nf # <<>> THEN 1 ELSE 0

\* the cNeoFade objects a channel has made and not destroyed are the one
\* it points to, if any; one is made only at a FADE not yet expired, and
\* destroyed in a pass only at the FADE's deadline, after which none is
\* left; and only a channel at a FADE has one
C19_OneOwned ==
  \A c \in Chans :
    /\ Cnt(c).live = Owned(c)
    /\ Ev(c).made => Ev(c).I.stateID = MB_FADE /\ ~Ev(c).expired
    /\ Ev(c).freed => Ev(c).I.stateID = MB_FADE /\ Ev(c).expired
    /\ FadeExpired(c) => Cnt(c).live = 0 /\ (Ev(c).freed => Ev(c).prev # <<>>)
    /\ Cnt(c).live > 0 => InTable(c) /\ Active(c).stateID = MB_FADE

\* between passes and resets nothing is made or destroyed, and a reset
\* leaves no object
C19_Kept ==
  \A c \in Chans :
    /\ ResetStep => cnt'[c[1]][c[2]].live = 0
    /\ (~ResetStep /\ ~PassStep(c[1]))
         => cnt'[c[1]][c[2]].live = Cnt(c).live

\* C19: every interpolator a channel makes is destroyed exactly once, at
\* the pass that finds its FADE expired or at the next reset, whichever
\* comes first: none is leaked or destroyed twice, a channel has at most
\* one, and a channel whose active instruction is not a FADE has none.
C19_Lifecycle == []C19_OneOwned /\ [][C19_Kept]_vars

\* an interpolator destroyed at its FADE's deadline, after it gave a colour
C19_Witness ==
  \E c \in Chans :
    FadeExpired(c) /\ Ev(c).freed /\ Cnt(c).live = 0 /\ Ev(c).prev # <<>>

\* a step that changes the colour buffer leaves the flag up; only the flush
\* takes the flag down; and a pass starts with the flag down
C20_Step ==
  /\ leds' # leds => needsUpdate'
  /\ (needsUpdate /\ ~needsUpdate') => FlushStep
  /\ BlinkStep => ~needsUpdate

\* while the flag is down the buffer is as the last flush left it: loop()
\* is at the pass, or the pass that ran changed nothing
C20_FlagTellsChange ==
  ~needsUpdate => phase = "blink" \/ \A c \in Chans : ~Ev(c).dirty

\* C20: when a pass or a reset changes a slot of the colour buffer,
\* needsUpdate is true afterwards, and the flush that clears it comes
\* before the next pass; nothing but the flush clears it, so no change of
\* colour stays unflushed.
C20_DirtyUntilFlushed == []C20_FlagTellsChange /\ [][C20_Step]_vars

\* after a pass that changed a slot: the flag is up and loop() is on its
\* way to the flush
C20_Witness ==
  /\ needsUpdate /\ phase = "switch"
  /\ \E c \in Chans :
       /\ Ev(c).dirty /\ Slot(c) = Ev(c).wrote[1].rgb
       /\ Ev(c).prev # <<>> /\ Ev(c).prev[1] # Slot(c)

----------------------------------------------------------------------------
(* The order of the entries within a pass *)

DistinctIds(pT) ==
  \A i, j \in 1..Len(pT) : i # j => pT[i].ledId # pT[j].ledId

\* the orders in which n entries can be visited
Orders(n) ==
  { o \in [1..n -> 1..n] : \A i, j \in 1..n : i # j => o[i] # o[j] }

CodeOrder(n) == [i \in 1..n |-> i]

\* loop() is about to run the pass over a table of distinct led ids
BeforePass ==
  /\ phase = "blink" /\ nTable < NumTables /\ ~fault
  /\ DistinctIds(T[Selected])

PassStart ==
  [S |-> S[Selected], leds |-> leds, dirty |-> needsUpdate, trap |-> FALSE,
   ev |-> ev[Selected], cnt |-> cnt[Selected]]

PassInputs ==
  { [alloc |-> al, dz |-> dz, gb |-> gb] :
      al \in AllocChoices(Len(T[Selected])),
      dz \in DzChoices(T[Selected]),
      gb \in GbChoices(S[Selected]) }

\* the scratchpads, the colour buffer and needsUpdate after a pass
After(st) == [S |-> st.S, leds |-> st.leds, dirty |-> st.dirty]

SameAfter(a, b) == (~a.trap /\ ~b.trap) => After(a) = After(b)

C21_OrderFree ==
  BeforePass =>
    \A in \in PassInputs, o \in Orders(Len(T[Selected])) :
      SameAfter(MultiBlinkIn(T[Selected], PassStart, o, clock, in),
                MultiBlink(T[Selected], S[Selected], leds, needsUpdate,
                           ev[Selected], cnt[Selected], clock, in))

\* what entry i's turn, taken alone on the state before the pass, can give
AloneTurns(k, i) ==
  { ChanStep(T[k][i], S[k][i], leds[T[k][i].ledId + 1],
             [ev |-> ev[k][i], cnt |-> cnt[k][i]], clock, al, dz, gb) :
      al \in BOOLEAN, dz \in DzChoices(T[k]),
      gb \in (IF S[k][i].currentState < MAX_STATE THEN {NOP} ELSE Garbage) }

\* the scratchpad moved on by no transition, or by one
\* (e is what the pass did at the entry)
OneTransition(old, new, e) ==
  \/ new.lastWakeup = old.lastWakeup /\ new.currentState = old.currentState
  \/ /\ e.proc
     /\ new.lastWakeup = Add32(old.lastWakeup, e.I.activeTime)
     /\ new.currentState =
          KeepInBounds(NextState(old.currentState, e.seq, e.jump))

\* a pass over a table of distinct led ids leaves each entry's scratchpad
\* and slot as the entry's turn alone leaves them, with at most one
\* transition, and leaves the other tables and the other slots as they were
C21_OwnOnly ==
  (BeforePass /\ PassStep(Selected)) =>
    /\ \A k \in 1..NumTables : k # Selected => S'[k] = S[k]
    /\ \A l \in 1..NUM_LEDS :
         (\A i \in 1..Len(T[Selected]) : T[Selected][i].ledId + 1 # l)
           => leds'[l] = leds[l]
    /\ \A i \in 1..Len(T[Selected]) :
         /\ \E r \in AloneTurns(Selected, i) :
              /\ S'[Selected][i] = r.s
              /\ leds'[T[Selected][i].ledId + 1] = r.led
         /\ OneTransition(S[Selected][i], S'[Selected][i],
                          ev'[Selected][i])

EveryEntryWrote(st) ==
  \A i \in DOMAIN st.ev : st.ev[i].wrote # <<>> /\ st.ev[i].trans

----------------------------------------------------------------------------
(* Terminal conditions *)

\* the channels, whatever the tables chosen (each has as many entries)
EveryChan == (1..NumTables) \X (1..Len(TabFlash))

Moving == {MB_NULL, MB_SET, MB_FADE, MB_LOOP, MB_GOTO}

\* the channel is enabled, in the selected table, at an instruction other
\* than STOP whose time is up, and the last pass left it there
Waiting(c) ==
  /\ ~fault /\ nTable < NumTables /\ c[1] = Selected
  /\ Sc(c).enabled /\ InTable(c)
  /\ Active(c).stateID \in Moving
  /\ Expired(clock, Sc(c), Active(c))
  /\ Ev(c).proc /\ ~Ev(c).trans

\* the channel has made a transition, or the input has taken loop() to
\* another table
MovedOn(c) == Ev(c).trans \/ c[1] # Selected \/ ~Ev(c).proc

\* C22: STOP is the only terminal condition: while loop() runs and time
\* passes, an enabled channel at SET, FADE, LOOP, GOTO or NULL comes to
\* make a transition.
C22_AlwaysMovesOn == \A c \in EveryChan : Waiting(c) ~> MovedOn(c)

\* a pass that finds an instruction's time up and makes no transition has
\* run STOP, or a GOTO or a LOOP whose target reads as -1
C22_OnlyJumpSticks ==
  \A c \in Chans :
    (Ev(c).proc /\ Ev(c).expired /\ ~Ev(c).trans) =>
      \/ Ev(c).I.stateID = MB_STOP
      \/ /\ Ev(c).I.stateID \in {MB_GOTO, MB_LOOP}
         /\ ToInt16(Ev(c).I.data1) = 0 - 1

----------------------------------------------------------------------------
(* The pace of a fade *)

\* the pass now taken gets a colour from getNext for channel c
TakesStep(c) == PassStep(c[1]) /\ IsKind(ev'[c[1]][c[2]].wrote, "step")

\* one step interval at least has gone by since the channel's FADE last
\* wrote a colour
IntervalGone(c) ==
  /\ Cnt(c).at # <<>>
  /\ Ge32(Sub32(clock, Cnt(c).at[1]), Sc(c).nf[1].timeInterval)

\* a pass over an interpolator that has ended leaves it alone
EndedLeftAlone(c) ==
  (PassStep(c[1]) /\ Sc(c).nf # <<>> /\ Sc(c).nf[1].ended)
    => /\ ev'[c[1]][c[2]].wrote = <<>> \/ IsKind(ev'[c[1]][c[2]].wrote, "final")
       /\ S'[c[1]][c[2]].nf \in {Sc(c).nf, <<>>}

\* every colour from getNext comes an interval at least after the colour
\* before it, the start colour included
C23_Step ==
  \A c \in Chans :
    /\ TakesStep(c) => IntervalGone(c)
    /\ EndedLeftAlone(c)

C23_EveryInterval == [][C23_Step]_vars

\* the first colour from getNext is the start colour again, whenever the
\* pass comes; every later one comes an interval at least after the one
\* before it
C23_StepAfterFirst ==
  \A c \in Chans :
    /\ (TakesStep(c) /\ Cnt(c).steps = 0)
         => ev'[c[1]][c[2]].wrote[1].rgb = CRGB(ev'[c[1]][c[2]].I.data1)
    /\ (TakesStep(c) /\ Cnt(c).steps > 0) => IntervalGone(c)
    /\ EndedLeftAlone(c)

\* C23: between two successive colours one fade's interpolator returns
\* through getNext at least timeInterval goes by, and getNext returns no
\* colour on a call made sooner; the first call returns the start colour
\* without waiting once millis() has reached timeInterval, so that the
\* first colour other than the start colour comes an interval at least
\* after the start; getNext is not called on an interpolator that has
\* ended.
C23_PacedAfterFirst == [][C23_StepAfterFirst]_vars

\* a fade that has just had its third colour from getNext
C23_Witness ==
  \E c \in Chans :
    /\ IsKind(Ev(c).wrote, "step") /\ Cnt(c).steps >= 3
    /\ Cnt(c).at = <<clock>> /\ Sc(c).nf # <<>>

----------------------------------------------------------------------------
(* The time base. age counts the milliseconds of the run without wrapping. *)

\* in every table, NULL and the unknown state values have activeTime 0
UntimedNull ==
  \A c \in Chans : \A j \in 1..MAX_STATE :
    Ent(c).state[j].stateID \notin {MB_SET, MB_FADE, MB_LOOP, MB_GOTO, MB_STOP}
      => Ent(c).state[j].activeTime = U32(0)

\* the age of the run at the last reset
AgeAtInit == AsInt(Sub32(lastInit, Sub32(clock, U32(age))))

\* the age of the run at the logical start of the channel's instruction:
\* the reset, and the times of the instructions left since
StartAge(c) == AgeAtInit + AsInt(Cnt(c).done)

\* now - lastWakeup, modulo 2^32
Lag(c) == Sub32(clock, Sc(c).lastWakeup)

\* C24: in tables whose NULL and unknown instructions have activeTime 0,
\* now - lastWakeup modulo 2^32 is the time gone by since the logical start
\* of the channel's instruction: lastWakeup is never ahead of the clock,
\* and timeExpired is right across the wrap of millis().
C24_TrueElapsed ==
  UntimedNull =>
    \A c \in Chans :
      /\ StartAge(c) <= age
      /\ Lag(c) = U32(age - StartAge(c))
      /\ InTable(c) =>
           (Ge32(Lag(c), Active(c).activeTime)
              <=> age - StartAge(c) >= AsInt(Active(c).activeTime))

\* millis() has wrapped, the channel's instruction began before the wrap,
\* after other instructions, and its time is up
C24_Witness ==
  /\ UntimedNull
  /\ \E c \in Chans :
       /\ clock[1] = 0 /\ Sc(c).lastWakeup[1] = Half - 1
       /\ Cnt(c).done # U32(0)
       /\ InTable(c) /\ Active(c).activeTime # U32(0)
       /\ Ge32(Lag(c), Active(c).activeTime)

----------------------------------------------------------------------------
(* Multi_Blink2, the sketch for plain LEDs. Its table T holds for every    *)
(* LED both the states and the running values, so here the variable T is   *)
(* the array of ledTable, changed by loop(); leds holds the level written  *)
(* to each pin, clock is millis(), and ev and cnt observe the visits of    *)
(* the MB_LOOP states. The other variables stay as they are.               *)

MB2_NULL == 0
MB2_LOW  == 1
MB2_HIGH == 2
MB2_LOOP == 3

LOOP_UNDEF == 255

\* sizeof(T[0].state)/sizeof(stateDef)
MAX_STATE2 == 4

Blink2Time == 6

StateDef(v, t, n) == [activeVal |-> v, activeTime |-> t, nextState |-> n]

\* an initializer of T[]: { pin, 0, 0, { states }, 0 }
LedTable(pin, prog) ==
  [ledPin |-> pin, currentState |-> 0, currentLoop |-> 0, state |-> prog,
   nextWakeup |-> U32(0)]

\* T[i].state[T[i].currentState]
Cur(t) == t.state[t.currentState + 1]

\* (++T[i].currentState) % MAX_STATE, on a uint8_t
Advance(cs) == ((cs + 1) % 256) % MAX_STATE2

\* "first time in this state set the loop counter": currentLoop, a
\* uint8_t, after the first if of case MB_LOOP
Loaded(t) ==
  IF t.currentLoop = LOOP_UNDEF THEN Cur(t).activeTime % 256
  ELSE t.currentLoop

\* case MB_LOOP: "if (T[i].currentLoop-- > 0)"
Loop2(t, wake) ==
  IF Loaded(t) > 0
  THEN [t EXCEPT !.currentLoop = Loaded(t) - 1,
                 !.currentState = Cur(t).nextState,
                 !.nextWakeup = U32(0)]
  ELSE [t EXCEPT !.currentLoop = LOOP_UNDEF,
                 !.currentState = Advance(t.currentState),
                 !.nextWakeup = wake]

\* the switch on activeVal, after nextWakeup = millis() + activeTime
Switch2(t, wake) ==
  CASE Cur(t).activeVal \in {MB2_LOW, MB2_HIGH} ->
         [t EXCEPT !.currentState = Advance(t.currentState),
                   !.nextWakeup = wake]
    [] Cur(t).activeVal = MB2_LOOP -> Loop2(t, wake)
    [] OTHER ->
         [t EXCEPT !.currentState = Advance(t.currentState),
                   !.nextWakeup = wake]

\* "if (millis() >= T[i].nextWakeup)"
Due2(t, now) == Ge32(now, t.nextWakeup)

\* the body of loop()'s for, for one LED
Visit2(t, now) ==
  IF Due2(t, now)
  THEN Switch2(t, Add32(now, U32(Cur(t).activeTime)))
  ELSE t

\* digitalWrite(T[i].ledPin, ...)
Pin2(t, level, now) ==
  IF Due2(t, now) /\ Cur(t).activeVal \in {MB2_LOW, MB2_HIGH}
  THEN Cur(t).activeVal = MB2_HIGH
  ELSE level

\* Observers. cnt.visits[s] is the number of visits that MB_LOOP state s
\* has had since it last let the LED go on (or since setup), not counted
\* beyond 256, and cnt.fresh[s] whether the first of them found
\* currentLoop = LOOP_UNDEF. ev is the last visit of an MB_LOOP state: the
\* state, its count and target, the visit's number k, whether it jumped,
\* and currentState and currentLoop as the visit left them.
NoVisit == [loop |-> FALSE, from |-> 0, n |-> 0, to |-> 0, k |-> 0,
            fresh |-> FALSE, jumped |-> FALSE, cs |-> 0, cl |-> 0]

NoVisits == [visits |-> [s \in 0..(MAX_STATE2 - 1) |-> 0],
             fresh |-> [s \in 0..(MAX_STATE2 - 1) |-> FALSE]]

AtLoop(t, now) == Due2(t, now) /\ Cur(t).activeVal = MB2_LOOP

Capped(k) == IF k > 256 THEN 256 ELSE k

FreshNow(t, c) ==
  IF c.visits[t.currentState] = 0 THEN t.currentLoop = LOOP_UNDEF
  ELSE c.fresh[t.currentState]

ObserveVisit(t, c, e, now) ==
  IF AtLoop(t, now)
  THEN [loop |-> TRUE, from |-> t.currentState, n |-> Cur(t).activeTime,
        to |-> Cur(t).nextState,
        k |-> Capped(c.visits[t.currentState] + 1),
        fresh |-> FreshNow(t, c), jumped |-> Loaded(t) > 0,
        cs |-> Visit2(t, now).currentState,
        cl |-> Visit2(t, now).currentLoop]
  ELSE e

CountVisit(t, c, now) ==
  IF AtLoop(t, now)
  THEN [visits |-> [c.visits EXCEPT ![t.currentState] =
                      IF Loaded(t) > 0 THEN Capped(@ + 1) ELSE 0],
        fresh |-> [c.fresh EXCEPT ![t.currentState] = FreshNow(t, c)]]
  ELSE c

\* the tables: times scaled down; one MB_LOOP per LED as in the sketch,
\* counts of 0, 1 and 254, two loops one after the other, and a loop
\* within the states another loop repeats
TabBlink ==
  << LedTable(3, <<StateDef(MB2_HIGH, 1, 0), StateDef(MB2_LOW, 1, 0),
                   StateDef(MB2_LOOP, 2, 0), StateDef(MB2_LOW, 2, 0)>>),
     LedTable(5, <<StateDef(MB2_LOW, 2, 0), StateDef(MB2_HIGH, 1, 0),
                   StateDef(MB2_LOW, 1, 0), StateDef(MB2_LOOP, 2, 1)>>) >>

TabCounts ==
  << LedTable(3, <<StateDef(MB2_LOOP, 254, 0), StateDef(MB2_HIGH, 0, 0),
                   StateDef(MB2_LOW, 0, 0), StateDef(MB2_NULL, 0, 0)>>),
     LedTable(4, <<StateDef(MB2_HIGH, 0, 0), StateDef(MB2_LOOP, 0, 0),
                   StateDef(MB2_LOW, 1, 0), StateDef(MB2_LOOP, 1, 2)>>) >>

TabNested ==
  << LedTable(3, <<StateDef(MB2_HIGH, 0, 0), StateDef(MB2_LOOP, 1, 0),
                   StateDef(MB2_LOW, 0, 0), StateDef(MB2_LOOP, 1, 0)>>),
     LedTable(4, <<StateDef(MB2_LOW, 1, 0), StateDef(MB2_LOOP, 3, 0),
                   StateDef(MB2_HIGH, 0, 0), StateDef(7, 0, 0)>>) >>

Blink2Tables == {TabBlink, TabCounts, TabNested}

\* setup()
Setup2(tab) ==
  [i \in 1..Len(tab) |->
     [tab[i] EXCEPT !.nextWakeup = U32(0), !.currentLoop = LOOP_UNDEF]]

InitBlink2 ==
  /\ T \in { Setup2(tab) : tab \in Blink2Tables }
  /\ leds = [i \in 1..Len(T) |-> FALSE]
  /\ clock = U32(0)
  /\ age = 0
  /\ ev = [i \in 1..Len(T) |-> NoVisit]
  /\ cnt = [i \in 1..Len(T) |-> NoVisits]
  /\ S = <<>>
  /\ needsUpdate = FALSE
  /\ nTable = 0
  /\ bLastHigh = TRUE
  /\ phase = "loop"
  /\ fault = FALSE
  /\ lastInit = clock
  /\ late = FALSE

\* loop(): every LED in turn
Loop2Call ==
  /\ T' = [i \in 1..Len(T) |-> Visit2(T[i], clock)]
  /\ leds' = [i \in 1..Len(T) |-> Pin2(T[i], leds[i], clock)]
  /\ ev' = [i \in 1..Len(T) |-> ObserveVisit(T[i], cnt[i], ev[i], clock)]
  /\ cnt' = [i \in 1..Len(T) |-> CountVisit(T[i], cnt[i], clock)]
  /\ UNCHANGED <<S, needsUpdate, nTable, bLastHigh, clock, age, phase, fault,
                 lastInit, late>>

Blink2Tick ==
  /\ age < Blink2Time
  /\ clock' = Add32(clock, U32(1))
  /\ age' = age + 1
  /\ UNCHANGED <<T, S, leds, needsUpdate, nTable, bLastHigh, phase, fault,
                 ev, cnt, lastInit, late>>

NextBlink2 == Loop2Call \/ Blink2Tick

SpecBlink2 == InitBlink2 /\ [][NextBlink2]_vars

Leds2 == 1..Len(T)

\* what the claim says of the last visit of an MB_LOOP state, the k-th
\* since the state last let the LED go on
CountedOut(i) ==
  /\ ev[i].k <= ev[i].n + 1
  /\ ev[i].k <= ev[i].n
       => ev[i].jumped /\ ev[i].cs = ev[i].to
  /\ ev[i].k = ev[i].n + 1
       => /\ ~ev[i].jumped
          /\ ev[i].cs = (ev[i].from + 1) % MAX_STATE2
          /\ ev[i].cl = LOOP_UNDEF

\* C25: an MB_LOOP state with count n, 0 <= n <= 254, that is reached with
\* currentLoop = LOOP_UNDEF jumps to its nextState on its first n visits
\* and on visit n + 1 goes on to the next state in sequence, modulo
\* MAX_STATE, with currentLoop = LOOP_UNDEF. The code breaks this when
\* another MB_LOOP state of the LED is visited in between: the LED has one
\* currentLoop for all its MB_LOOP states.
C25_LoopCount ==
  \A i \in Leds2 :
    (ev[i].loop /\ ev[i].fresh /\ ev[i].n <= 254) => CountedOut(i)

OneLoop(i) ==
  Cardinality({ s \in 1..MAX_STATE2 : T[i].state[s].activeVal = MB2_LOOP }) = 1

\* the same for an LED with a single MB_LOOP state
C25_SingleLoop ==
  \A i \in Leds2 :
    (ev[i].loop /\ ev[i].fresh /\ ev[i].n <= 254 /\ OneLoop(i))
      => CountedOut(i)

====
